---- MODULE Spec2Model ----
(***************************************************************************)
(* A model of the box image builder's command line front end:              *)
(*   - the interactive session (repl): Repl.Loop, its background reader,   *)
(*     Repl.doLoop, Repl.readChannels, Repl.handleError, Repl.checkQuit;   *)
(*   - the builder query functions read, getuid and getgid;                *)
(*   - the one-shot and multi drivers of main.go.                          *)
(* Text is a sequence of atoms: the words the session and the evaluator    *)
(* tell apart, the blank " " and the newline "\n".                         *)
(***************************************************************************)
EXTENDS Integers, Sequences, FiniteSets, TLC

\* ------------------------------------------------------------------ bounds
\* Readline() returns at most MaxReads times in one session.
MaxReads == 3
\* At most MaxSignals SIGINTs are delivered to the session.
MaxSignals == 2
\* The cancellation coordinator is triggered at most MaxTriggers times.
MaxTriggers == 1
\* The evaluator's continuation tokens for a pending statement are 1..MaxKeep.
MaxKeep == 2

\* ------------------------------------------------------------------ text
normalPrompt == "box> "
multilinePrompt == "box*> "

\* Capacity of lineChan and of errChan (make(chan ..., 1)).
ChanCap == 1
\* Capacity of the signals channel (make(chan os.Signal, 2)).
SignalCap == 2

IsSpace(c) == c \in {" ", "\n"}

RECURSIVE TrimLeft(_)
TrimLeft(s) ==
  IF s = <<>> THEN <<>>
  ELSE IF IsSpace(Head(s)) THEN TrimLeft(Tail(s)) ELSE s

RECURSIVE TrimRight(_)
TrimRight(s) ==
  IF s = <<>> THEN <<>>
  ELSE IF IsSpace(s[Len(s)]) THEN TrimRight(SubSeq(s, 1, Len(s) - 1)) ELSE s

\* strings.TrimSpace
TrimSpace(s) == TrimRight(TrimLeft(s))

\* The inputs checkQuit intercepts.
SpecialWords == { <<"quit">>, <<"exit">>, <<"help">>, <<"reset">> }

\* What Readline() can return as a line (a line holds no newline).
Lines ==
  { <<"s">>, <<"o">>, <<"c">>, <<"p">>,
    <<"help">>, <<"reset">>, <<" ", "quit", " ">>, <<"exit">> }

\* What Readline() can return as an error: io.EOF, *readline.InterruptError,
\* any other error.
ReadErrors == { "EOF", "Interrupt", "IOError" }

\* One result of Readline(): tmp, err.
Items ==
  [kind : {"line"}, val : Lines, err : {"nil"}]
    \cup [kind : {"err"}, val : {<<>>}, err : ReadErrors]

NoItem == [kind |-> "none", val |-> <<>>, err |-> "nil"]


\* ------------------------------------------------------------------ evaluator
\* The words of a text, blanks and newlines dropped.
Words(text) == SelectSeq(text, LAMBDA c : ~IsSpace(c))

\* Nesting depth after the words ws, starting at depth d: "o" opens a block,
\* "c" closes one; -1 when a block is closed that was never opened.
RECURSIVE Depth(_, _)
Depth(ws, d) ==
  IF ws = <<>> THEN d
  ELSE IF Head(ws) = "o" THEN Depth(Tail(ws), d + 1)
  ELSE IF Head(ws) = "c" THEN (IF d = 0 THEN -1 ELSE Depth(Tail(ws), d - 1))
  ELSE Depth(Tail(ws), d)

Has(ws, w) == \E i \in 1..Len(ws) : ws[i] = w

\* The continuation token of "no pending fragment".
Baseline == 0

\* Evaluator.RunCode(text, keep, false): the outcomes the evaluator contract
\* allows for text.  (a) complete and executed: baseline token, nil error;
\* (b) incomplete: a non-baseline token and the distinguished parser error;
\* (c) genuine error (here: closing a block that is not open): baseline token
\* and a terminal error.  A statement "p" makes the interpreter panic while it
\* runs.
RunCode(text, keep) ==
  LET ws == Words(text)
      d == Depth(ws, 0)
  IN  IF d < 0 THEN { [kind |-> "error", keep |-> Baseline, err |-> "Error"] }
      ELSE IF d > 0
        THEN { [kind |-> "incomplete", keep |-> k, err |-> "ParserError"] :
                 k \in 1..MaxKeep }
      ELSE IF Has(ws, "p")
        THEN { [kind |-> "panic", keep |-> Baseline, err |-> "panic"] }
      ELSE { [kind |-> "ok", keep |-> Baseline, err |-> "nil"] }

\* A call running under a cancelled scope may also fail on its first engine
\* call with the cancellation error.
CancelledOutcome == [kind |-> "error", keep |-> Baseline, err |-> "Error"]

\* ------------------------------------------------------------------ state
VARIABLES
  tty,          \* r.globals.TTY
  rvars,        \* r.vars
  evals,        \* every evaluator constructed so far: [vars, closed, calls]
  evaluator,    \* r.evaluator, an index into evals
  prompt,       \* the prompt of r.readline
  curScope,     \* r.globals.Context, a scope id
  funcs,        \* signal.Handler: the registered cancel functions (scope ids)
  handlerExit,  \* signal.Handler.Exit
  cancelCalls,  \* scope id -> number of calls of its cancel function
  lineChan, errChan, signals,   \* the channels of Loop
  pPc, pItem,   \* the background reader: position and the value it holds
  mPc,          \* doLoop: position
  line, stackKeep, cancel,      \* doLoop: local variables
  consumed,     \* items doLoop received in the iteration under way
  path,         \* the branch the iteration under way took
  printed,      \* what the iteration under way printed
  lastCall,     \* the arguments of the RunCode call of this iteration
  lastOutcome,  \* what the latest RunCode call returned
  prevIter,     \* the text the iteration before this one left incomplete
  exit,         \* "running" or the exit code of the process
  nReads, nSignals, nTriggers   \* bound counters

replVars ==
  << tty, rvars, evals, evaluator, prompt, curScope, funcs, handlerExit,
     cancelCalls, lineChan, errChan, signals, pPc, pItem, mPc, line, stackKeep,
     cancel, consumed, path, printed, lastCall, lastOutcome, prevIter, exit,
     nReads, nSignals, nTriggers >>

\* The builder whose functions a script calls.
VARIABLES
  imageID,      \* the builder's image reference, <<>> while there is none
  files,        \* the files of the container: path -> content
  fResult       \* the latest call of a builder function and what it returned

funcsVars == << imageID, files, fResult >>

\* The one-shot and the multi driver.
VARIABLES
  driver,       \* the command: "oneshot" (app.Action) or "multi" (runMulti)
  varFlags,     \* ctx.StringSlice("var")
  tagFlag,      \* ctx.String("tag")
  nPlans,       \* len(ctx.Args()) of the multi driver
  builders,     \* the builders: [st, closes]
  tagged,       \* b.Tag: "none", "ok" or "failed"
  dPc,          \* the driver's position
  runners,      \* signal.Handler: the registered runner handles
  runnerCloses  \* runner handle -> number of times it was released

mainVars ==
  << driver, varFlags, tagFlag, nPlans, builders, tagged, dPc, runners,
     runnerCloses >>


NoCall ==
  [made |-> FALSE, text |-> <<>>, input |-> <<>>, keep |-> Baseline,
   eval |-> 0, nth |-> 0, cancelled |-> FALSE, prevKind |-> "none"]

NoOutcome == [kind |-> "none", keep |-> Baseline, err |-> "nil"]

NoIter == [kind |-> "none", text |-> <<>>]

\* The variables of the session alone; the others are the state of the
\* process and of its cancellation coordinator.
replOwnVars ==
  << tty, rvars, evals, evaluator, prompt, curScope, lineChan, errChan,
     signals, pPc, pItem, mPc, line, stackKeep, cancel, consumed, path,
     printed, lastCall, lastOutcome, prevIter, nReads, nSignals >>

\* NewRepl: interactive mode, a first scope is registered.
ReplHandlerInit ==
  /\ funcs = << 0 >>
  /\ handlerExit = FALSE
  /\ cancelCalls = [s \in {0} |-> 0]
  /\ exit = "running"
  /\ nTriggers = 0

\* NewRepl, then the start of Loop: the session as doLoop finds it.
ReplOwnInit ==
  /\ tty \in BOOLEAN
  /\ rvars = << "k=v" >>
  /\ evals = << [vars |-> rvars, closed |-> FALSE, calls |-> 0] >>
  /\ evaluator = 1
  /\ prompt = normalPrompt
  /\ curScope = 0
  /\ lineChan = <<>> /\ errChan = <<>> /\ signals = 0
  /\ pPc = "read" /\ pItem = NoItem
  /\ mPc = "top"
  /\ line = <<>> /\ stackKeep = 0 /\ cancel = <<>>
  /\ consumed = 0 /\ path = "none" /\ printed = {}
  /\ lastCall = NoCall /\ lastOutcome = NoOutcome /\ prevIter = NoIter
  /\ nReads = 0 /\ nSignals = 0

ReplInit == ReplHandlerInit /\ ReplOwnInit

Running == exit = "running"


\* os.Exit(code): the process, its reader goroutine included, is over.
Exit(code) == exit' = code /\ mPc' = "exited"

\* ------------------------------------------------------------------ reader
\* The goroutine of Loop: r.readline.Readline() returns.
ProducerRead ==
  /\ Running /\ pPc = "read" /\ nReads < MaxReads
  /\ \E it \in Items : pItem' = it
  /\ pPc' = "publish"
  /\ nReads' = nReads + 1
  /\ UNCHANGED << tty, rvars, evals, evaluator, prompt, curScope, funcs,
                  handlerExit, cancelCalls, lineChan, errChan, signals, mPc,
                  line, stackKeep, cancel, consumed, path, printed, lastCall,
                  lastOutcome, prevIter, exit, nSignals, nTriggers >>
  /\ UNCHANGED << funcsVars, mainVars >>

\* errChan <- err, or lineChan <- tmp: blocks while the channel is full.
ProducerPublish ==
  /\ Running /\ pPc = "publish"
  /\ IF pItem.kind = "err"
       THEN /\ Len(errChan) < ChanCap
            /\ errChan' = Append(errChan, pItem.err)
            /\ UNCHANGED lineChan
       ELSE /\ Len(lineChan) < ChanCap
            /\ lineChan' = Append(lineChan, pItem.val)
            /\ UNCHANGED errChan
  /\ pPc' = "wait"
  /\ pItem' = NoItem
  /\ UNCHANGED << tty, rvars, evals, evaluator, prompt, curScope, funcs,
                  handlerExit, cancelCalls, signals, mPc, line, stackKeep,
                  cancel, consumed, path, printed, lastCall, lastOutcome,
                  prevIter, exit, nReads, nSignals, nTriggers >>
  /\ UNCHANGED << funcsVars, mainVars >>

EvalPaths == { "incomplete", "failed", "ok" }

\* syncChan is unbuffered: doLoop's send and the reader's receive happen
\* together.  The iteration of doLoop is over, the reader reads again.
Sync ==
  /\ Running /\ mPc = "sync" /\ pPc = "wait"
  /\ mPc' = "top" /\ pPc' = "read"
  /\ consumed' = 0 /\ path' = "none" /\ printed' = {}
  /\ prevIter' = IF path \in EvalPaths /\ lastOutcome.kind = "incomplete"
                   THEN [kind |-> "incomplete", text |-> lastCall.text]
                   ELSE NoIter
  /\ lastCall' = NoCall
  /\ UNCHANGED << tty, rvars, evals, evaluator, prompt, curScope, funcs,
                  handlerExit, cancelCalls, lineChan, errChan, signals, pItem,
                  line, stackKeep, cancel, lastOutcome, exit,
                  nReads, nSignals, nTriggers >>
  /\ UNCHANGED << funcsVars, mainVars >>


\* ------------------------------------------------------------------ coordinator
\* The calls of cancel functions made so far, after each function of the
\* sequence fs has been called once more.
CallAll(calls, fs) ==
  [s \in DOMAIN calls |->
     calls[s] + Cardinality({ i \in 1..Len(fs) : fs[i] = s })]

\* signal.Handler.AddFunc(f)
AddFunc(fs, f) == Append(fs, f)

\* context.WithCancel: the id of the next scope.
NewScope(calls) == Cardinality(DOMAIN calls)

Cancelled(s) == cancelCalls[s] > 0

\* signal.Handler on a termination request: every registered cancel function
\* is called, the list is cleared; the process ends only in terminate mode.
Trigger ==
  /\ Running /\ nTriggers < MaxTriggers
  /\ nTriggers' = nTriggers + 1
  /\ cancelCalls' = CallAll(cancelCalls, funcs)
  /\ funcs' = <<>>
  /\ IF handlerExit THEN Exit("killed") ELSE UNCHANGED << exit, mPc >>
  /\ UNCHANGED << tty, rvars, evals, evaluator, prompt, curScope, handlerExit,
                  lineChan, errChan, signals, pPc, pItem, line, stackKeep,
                  cancel, consumed, path, printed, lastCall, lastOutcome,
                  prevIter, nReads, nSignals >>
  /\ UNCHANGED << funcsVars, mainVars >>

\* A SIGINT reaches the channel gosig.Notify filled in, which Loop installs
\* only without a TTY; a signal that finds the channel full is dropped.
OsSignal ==
  /\ Running /\ ~tty /\ nSignals < MaxSignals
  /\ nSignals' = nSignals + 1
  /\ signals' = IF signals < SignalCap THEN signals + 1 ELSE signals
  /\ UNCHANGED << tty, rvars, evals, evaluator, prompt, curScope, funcs,
                  handlerExit, cancelCalls, lineChan, errChan, pPc, pItem, mPc,
                  line, stackKeep, cancel, consumed, path, printed, lastCall,
                  lastOutcome, prevIter, exit, nReads, nTriggers >>
  /\ UNCHANGED << funcsVars, mainVars >>

\* ------------------------------------------------------------------ doLoop
\* A handleError that ends the process with code 2 on an unknown read error.
handleError_Exit2(l, err, pr) ==
  IF err = "EOF" THEN
    [exit |-> "exit0", ret |-> FALSE, prompt |-> pr, printed |-> {}]
  ELSE IF err = "Interrupt" THEN
    [exit |-> "running", ret |-> TRUE,
     prompt |-> IF l # <<>> THEN normalPrompt ELSE pr,
     printed |-> IF l # <<>> THEN {} ELSE {"hint"}]
  ELSE
    [exit |-> "exit2", ret |-> FALSE, prompt |-> pr, printed |-> {"fatal"}]

\* Repl.handleError(line, err): what it does with a read error.
\* ret is its return value; it exits on EOF and on an unknown error.
handleError(l, err, pr) ==
  IF err = "EOF" THEN
    [exit |-> "exit0", ret |-> FALSE, prompt |-> pr, printed |-> {}]
  ELSE IF err = "Interrupt" THEN
    [exit |-> "running", ret |-> TRUE,
     prompt |-> IF l # <<>> THEN normalPrompt ELSE pr,
     printed |-> IF l # <<>> THEN {} ELSE {"hint"}]
  ELSE
    [exit |-> "exit1", ret |-> FALSE, prompt |-> pr, printed |-> {"fatal"}]

\* The branch an iteration took when handleError ended the process.
ExitPath(code) == IF code = "exit0" THEN "eof" ELSE "readError"

\* The top of the for loop: the scope of the iteration before is cancelled, a
\* fresh one is made current and registered with the coordinator.
LoopTop ==
  /\ Running /\ mPc = "top"
  /\ LET n == NewScope(cancelCalls)
     IN  /\ cancelCalls' =
               [s \in DOMAIN cancelCalls \cup {n} |->
                  IF s = n THEN 0
                  ELSE IF cancel = << s >> THEN cancelCalls[s] + 1
                  ELSE cancelCalls[s]]
         /\ curScope' = n
         /\ cancel' = << n >>
         /\ funcs' = AddFunc(funcs, n)
  /\ mPc' = "select"
  /\ UNCHANGED << tty, rvars, evals, evaluator, prompt, handlerExit, lineChan,
                  errChan, signals, pPc, pItem, line, stackKeep, consumed,
                  path, printed, lastCall, lastOutcome, prevIter, exit,
                  nReads, nSignals, nTriggers >>
  /\ UNCHANGED << funcsVars, mainVars >>

\* readChannels, case err = <-errChan.
RecvErr ==
  /\ Running /\ mPc = "select" /\ errChan # <<>>
  /\ LET h == handleError(line, Head(errChan), prompt)
     IN  /\ errChan' = Tail(errChan)
         /\ consumed' = consumed + 1
         /\ prompt' = h.prompt
         /\ printed' = h.printed
         /\ IF h.exit # "running"
              THEN Exit(h.exit) /\ path' = ExitPath(h.exit) /\ UNCHANGED line
              ELSE /\ line' = <<>> /\ path' = "interrupt" /\ mPc' = "sync"
                   /\ UNCHANGED exit
  /\ UNCHANGED << tty, rvars, evals, evaluator, curScope, funcs, handlerExit,
                  cancelCalls, lineChan, signals, pPc, pItem, stackKeep,
                  cancel, lastCall, lastOutcome, prevIter, nReads, nSignals,
                  nTriggers >>
  /\ UNCHANGED << funcsVars, mainVars >>

\* readChannels, case <-signals: the statement is cancelled; a read error that
\* is already published is taken along.
RecvSignal ==
  /\ Running /\ mPc = "select" /\ signals > 0
  /\ signals' = signals - 1
  /\ IF errChan # <<>>
       THEN LET h == handleError(line, Head(errChan), prompt)
            IN  /\ errChan' = Tail(errChan)
                /\ consumed' = consumed + 1
                /\ prompt' = h.prompt
                /\ printed' = {"canceled"} \cup h.printed
                /\ IF h.exit # "running"
                     THEN Exit(h.exit) /\ path' = ExitPath(h.exit)
                          /\ UNCHANGED line
                     ELSE /\ line' = <<>> /\ path' = "signal" /\ mPc' = "sync"
                          /\ UNCHANGED exit
       ELSE /\ printed' = {"canceled"}
            /\ line' = <<>> /\ path' = "signal" /\ mPc' = "sync"
            /\ UNCHANGED << errChan, consumed, prompt, exit >>
  /\ UNCHANGED << tty, rvars, evals, evaluator, curScope, funcs, handlerExit,
                  cancelCalls, lineChan, pPc, pItem, stackKeep, cancel,
                  lastCall, lastOutcome, prevIter, nReads, nSignals,
                  nTriggers >>
  /\ UNCHANGED << funcsVars, mainVars >>


\* readChannels, case tmp = <-lineChan: the text doLoop goes on with.
readChannelsLine(l, tmp) == l \o tmp \o << "\n" >>

\* Repl.checkQuit(line): the case of its switch.
checkQuit(l) ==
  LET t == TrimSpace(l)
  IN  IF t = << "quit" >> \/ t = << "exit" >> THEN "exit"
      ELSE IF t = << "help" >> THEN "help"
      ELSE IF t = << "reset" >> THEN "reset"
      ELSE "pass"

\* A doLoop that takes every error of RunCode for "more input needed".
IsIncomplete_AnyError(err, newKeep, keep) == err # "nil"

\* The test of doLoop for "more input needed": a parser error with the
\* continuation token unchanged.
IsIncomplete(err, newKeep, keep) == err = "ParserError" /\ newKeep = keep

\* readChannels receives a line, checkQuit looks at the text so far, and
\* unless it is a special input RunCode is called with it.
RecvLine ==
  /\ Running /\ mPc = "select" /\ lineChan # <<>>
  /\ LET tmp == Head(lineChan)
         l == readChannelsLine(line, tmp)
         q == checkQuit(l)
     IN  /\ lineChan' = Tail(lineChan)
         /\ consumed' = consumed + 1
         /\ CASE q = "exit" ->
                   /\ Exit("exit0")
                   /\ line' = l /\ path' = "quit"
                   /\ UNCHANGED << evals, evaluator, printed, lastCall >>
              [] q = "help" ->
                   /\ printed' = {"help"}
                   /\ line' = <<>> /\ path' = "special" /\ mPc' = "sync"
                   /\ UNCHANGED << evals, evaluator, lastCall, exit >>
              [] q = "reset" ->
                   \/ \* docker.NewDocker or mruby.NewMRuby fails
                      /\ Exit("exit1")
                      /\ printed' = {"fatal"}
                      /\ line' = l /\ path' = "resetError"
                      /\ UNCHANGED << evals, evaluator, lastCall >>
                   \/ /\ evals' = Append(evals, [vars |-> rvars,
                                                 closed |-> FALSE,
                                                 calls |-> 0])
                      /\ evaluator' = Len(evals) + 1
                      /\ line' = <<>> /\ path' = "special" /\ mPc' = "sync"
                      /\ UNCHANGED << printed, lastCall, exit >>
              [] OTHER ->
                   /\ line' = l
                   /\ mPc' = "eval"
                   /\ evals' = [evals EXCEPT ![evaluator].calls = @ + 1]
                   /\ lastCall' =
                        [made |-> TRUE, text |-> l, input |-> tmp,
                         keep |-> stackKeep, eval |-> evaluator,
                         nth |-> evals[evaluator].calls + 1,
                         cancelled |-> Cancelled(curScope),
                         prevKind |-> lastOutcome.kind]
                   /\ UNCHANGED << evaluator, path, printed, exit >>
  /\ UNCHANGED << tty, rvars, prompt, curScope, funcs, handlerExit,
                  cancelCalls, errChan, signals, pPc, pItem, stackKeep, cancel,
                  lastOutcome, prevIter, nReads, nSignals, nTriggers >>
  /\ UNCHANGED << funcsVars, mainVars >>

\* RunCode returns (or panics) and doLoop deals with the result.
EvalReturn ==
  /\ Running /\ mPc = "eval"
  /\ LET normal == RunCode(line, stackKeep)
         outcomes ==
           IF Cancelled(curScope) /\ (\E o \in normal : o.kind = "ok")
             THEN normal \cup {CancelledOutcome} ELSE normal
     IN  \E o \in outcomes :
           /\ lastOutcome' = o
           /\ IF o.kind = "panic" THEN
                \* recovered by the deferred function of Loop
                /\ Exit("exit2")
                /\ printed' = {"abort"} /\ path' = "panic"
                /\ UNCHANGED << line, stackKeep, prompt >>
              ELSE IF IsIncomplete(o.err, o.keep, stackKeep) THEN
                /\ prompt' = multilinePrompt
                /\ path' = "incomplete" /\ mPc' = "sync"
                /\ UNCHANGED << line, stackKeep, printed, exit >>
              ELSE
                /\ stackKeep' = o.keep
                /\ line' = <<>>
                /\ prompt' = normalPrompt
                /\ printed' = IF o.err # "nil" THEN {"error"} ELSE {"result"}
                /\ path' = IF o.err # "nil" THEN "failed" ELSE "ok"
                /\ mPc' = "sync"
                /\ UNCHANGED exit
  /\ UNCHANGED << tty, rvars, evals, evaluator, curScope, funcs, handlerExit,
                  cancelCalls, lineChan, errChan, signals, pPc, pItem, cancel,
                  consumed, lastCall, prevIter, nReads, nSignals, nTriggers >>
  /\ UNCHANGED << funcsVars, mainVars >>

ReplNext ==
  \/ ProducerRead \/ ProducerPublish \/ Sync
  \/ LoopTop \/ RecvErr \/ RecvSignal \/ RecvLine \/ EvalReturn
  \/ OsSignal \/ Trigger


\* ------------------------------------------------------------------ funcs.go
\* Strings of the builder functions are sequences of characters.
\* At most MaxEntries lines in a file of the container, MaxFields fields in a
\* line.
MaxEntries == 2
MaxFields == 3

\* strings.Split(s, sep) for a separator of one character.
RECURSIVE Split(_, _)
Split(s, sep) ==
  IF s = <<>> THEN << <<>> >>
  ELSE LET rest == Split(Tail(s), sep)
       IN  IF Head(s) = sep THEN << <<>> >> \o rest
           ELSE << << Head(s) >> \o Head(rest) >> \o Tail(rest)

\* strings.Join(parts, sep)
RECURSIVE Join(_, _)
Join(parts, sep) ==
  IF parts = <<>> THEN <<>>
  ELSE IF Len(parts) = 1 THEN Head(parts)
  ELSE Head(parts) \o << sep >> \o Join(Tail(parts), sep)

\* fmt's %q of one character.
QuoteChar(c) ==
  IF c = "\n" THEN << "\\", "n" >>
  ELSE IF c = "\"" THEN << "\\", "\"" >>
  ELSE IF c = "\\" THEN << "\\", "\\" >>
  ELSE << c >>

RECURSIVE QuoteBody(_)
QuoteBody(s) ==
  IF s = <<>> THEN <<>> ELSE QuoteChar(Head(s)) \o QuoteBody(Tail(s))

\* fmt.Sprintf("%q", s)
Quote(s) == << "\"" >> \o QuoteBody(s) \o << "\"" >>

\* strings.Contains(s, sub)
Contains(s, sub) ==
  \E i \in 0..(Len(s) - Len(sub)) : SubSeq(s, i + 1, i + Len(sub)) = sub

\* The values a field of a record takes, and the names that are looked up.
FieldVals == { << "a" >>, << "a", "b" >> }
Names == { <<>>, << "a" >>, << "a", "b" >>, << "\n" >> }

\* All sequences over S of length 0..n.
SeqsUpTo(S, n) == UNION { [1..k -> S] : k \in 0..n }

\* The contents a file of the container can have: up to MaxEntries lines of
\* up to MaxFields fields.  A line may be empty, so a content may end with a
\* newline.
Entries == { Join(fs, ":") : fs \in SeqsUpTo(FieldVals, MaxFields) }
Contents == { Join(es, "\n") : es \in SeqsUpTo(Entries, MaxEntries) }

\* The message of the guard of read, getuid and getgid.
NoImageMsg ==
  << "from has not been called, no image can be used to get the UID" >>

\* fmt.Sprintf("Expected 1 arg, got %d", n)
ArgCountMsg(n) == << "Expected 1 arg, got ", ToString(n) >>

\* createException(m, msg): the error value the function returns.
\* engine counts the calls of b.containerContent the function made.
Exception(msg, engine) ==
  [kind |-> "err", val |-> <<>>, msg |-> msg, engine |-> engine]

Value(v, engine) == [kind |-> "ok", val |-> v, msg |-> <<>>, engine |-> engine]

\* An index out of range: the function does not return.
Fault(engine) == [kind |-> "panic", val |-> <<>>, msg |-> <<>>, engine |-> engine]

\* The loop of getuid and getgid over the lines of the file: the third field
\* of the first line whose first field is name.
RECURSIVE lookup(_, _, _, _)
lookup(entries, name, what, engine) ==
  IF entries = <<>>
    THEN Exception(<< "Could not find ", what, " " >> \o Quote(name), engine)
  ELSE LET parts == Split(Head(entries), ":")
       IN  IF parts[1] = name
             THEN IF Len(parts) >= 3 THEN Value(parts[3], engine)
                  ELSE Fault(engine)
             ELSE lookup(Tail(entries), name, what, engine)

\* b.ImageID() == ""
NoImage(img) == img = <<>>

PasswdPath == << "/etc/passwd" >>
GroupPath == << "/etc/group" >>

\* b.containerContent(file) on the files fs of the container: the content of
\* the file, or an error when the engine fails or the file does not exist.
containerContent(fs, file, engineOk) ==
  IF engineOk /\ file \in DOMAIN fs
    THEN [err |-> FALSE, data |-> fs[file]]
    ELSE [err |-> TRUE, data |-> <<>>]

\* read(args)
read(args, img, fs, engineOk) ==
  IF Len(args) # 1 THEN Exception(ArgCountMsg(Len(args)), 0)
  ELSE IF NoImage(img) THEN Exception(NoImageMsg, 0)
  ELSE LET cc == containerContent(fs, args[1], engineOk)
       IN  IF cc.err THEN Exception(<< "engine error" >>, 1)
           ELSE Value(cc.data, 1)

\* A getuid that asks the engine without looking at the image reference.
getuid_NoGuard(args, img, fs, engineOk) ==
  IF Len(args) # 1 THEN Exception(ArgCountMsg(Len(args)), 0)
  ELSE LET cc == containerContent(fs, PasswdPath, engineOk)
       IN  IF cc.err THEN Exception(<< "engine error" >>, 1)
           ELSE lookup(Split(cc.data, "\n"), args[1], "user", 1)

\* getuid(args)
getuid(args, img, fs, engineOk) ==
  IF Len(args) # 1 THEN Exception(ArgCountMsg(Len(args)), 0)
  ELSE IF NoImage(img) THEN Exception(NoImageMsg, 0)
  ELSE LET cc == containerContent(fs, PasswdPath, engineOk)
       IN  IF cc.err THEN Exception(<< "engine error" >>, 1)
           ELSE lookup(Split(cc.data, "\n"), args[1], "user", 1)

\* getgid(args)
getgid(args, img, fs, engineOk) ==
  IF Len(args) # 1 THEN Exception(ArgCountMsg(Len(args)), 0)
  ELSE IF NoImage(img) THEN Exception(NoImageMsg, 0)
  ELSE LET cc == containerContent(fs, GroupPath, engineOk)
       IN  IF cc.err THEN Exception(<< "engine error" >>, 1)
           ELSE lookup(Split(cc.data, "\n"), args[1], "group", 1)

NoResult ==
  [fn |-> "none", args |-> <<>>, before |-> <<>>, after |-> <<>>,
   ret |-> [kind |-> "none", val |-> <<>>, msg |-> <<>>, engine |-> 0]]

\* A builder before its first step, on an engine whose image holds the files.
FuncsInit ==
  /\ imageID = <<>>
  /\ \E c \in Contents :
       \/ files = (PasswdPath :> c) @@ (GroupPath :> <<>>)
       \/ files = (PasswdPath :> <<>>) @@ (GroupPath :> c)
  /\ fResult = NoResult

\* The step that establishes the base image.
From ==
  /\ imageID = <<>>
  /\ imageID' = << "img" >>
  /\ UNCHANGED << files, fResult, replVars, mainVars >>

\* The arguments a script passes to a lookup: none, one name, or two.
LookupArgs == { <<>> } \cup { << n >> : n \in Names } \cup { << <<>>, <<>> >> }
ReadArgs ==
  { <<>>, << PasswdPath >>, << GroupPath >>, << << "a" >> >>,
    << PasswdPath, GroupPath >> }

\* What is kept of a call of fn with args that returned ret; a call leaves
\* the image as it is.
CallOf(fn, args, ret) ==
  [fn |-> fn, args |-> args, before |-> imageID, after |-> imageID,
   ret |-> ret]

\* The script calls a builder function.  The functions keep no state of their
\* own, so a behaviour looks at one call.
CallRead ==
  /\ fResult = NoResult
  /\ \E args \in ReadArgs, ok \in BOOLEAN :
       fResult' = CallOf("read", args, read(args, imageID, files, ok))
  /\ UNCHANGED << imageID, files, replVars, mainVars >>

CallGetuid ==
  /\ fResult = NoResult
  /\ \E args \in LookupArgs, ok \in BOOLEAN :
       fResult' = CallOf("getuid", args, getuid(args, imageID, files, ok))
  /\ UNCHANGED << imageID, files, replVars, mainVars >>

CallGetgid ==
  /\ fResult = NoResult
  /\ \E args \in LookupArgs, ok \in BOOLEAN :
       fResult' = CallOf("getgid", args, getgid(args, imageID, files, ok))
  /\ UNCHANGED << imageID, files, replVars, mainVars >>

FuncsNext == From \/ CallRead \/ CallGetuid \/ CallGetgid


\* ------------------------------------------------------------------ main.go
\* The multi driver is given at most MaxPlans plan files.
MaxPlans == 2

\* strings.SplitN(s, sep, 2): s cut at the first sep, or s alone.
RECURSIVE SplitN2(_, _)
SplitN2(s, sep) ==
  IF s = <<>> THEN << <<>> >>
  ELSE IF Head(s) = sep THEN << <<>>, Tail(s) >>
  ELSE LET rest == SplitN2(Tail(s), sep)
       IN  << << Head(s) >> \o Head(rest) >> \o Tail(rest)

\* parseVars(ctx) after the values vs with the map m built so far: the map of
\* the --var values; it panics when a value holds no "=" and parts[1] is out
\* of range.
RECURSIVE parseVarsFrom(_, _)
parseVarsFrom(vs, m) ==
  IF vs = <<>> THEN [panic |-> FALSE, vars |-> m]
  ELSE LET parts == SplitN2(Head(vs), "=")
       IN  IF Len(parts) < 2 THEN [panic |-> TRUE, vars |-> m]
           ELSE parseVarsFrom(Tail(vs),
                              { q \in m : q[1] # parts[1] } \cup { parts })

parseVars(vs) == parseVarsFrom(vs, {})

\* The --var values of a command line.
VarFlags ==
  { <<>>,
    << << "k", "=", "v" >> >>,
    << << "k", "=", "v", "=", "w" >> >>,
    << << "k" >> >>,
    << << "k", "=", "v" >>, << "j" >> >> }

\* os.Exit(code), or the end of main, in a driver.
MainExit(code) == exit' = code /\ dPc' = "exited"

\* signal.Handler.AddRunner(r)
AddRunner(rs, r) == Append(rs, r)

NoFuncs == [s \in {} |-> 0]

\* The process as main finds it: terminate mode, nothing registered.
MainInit ==
  /\ driver \in { "oneshot", "multi" }
  /\ varFlags \in VarFlags
  /\ IF driver = "oneshot"
       THEN tagFlag \in { <<>>, << "t" >> } /\ nPlans = 1
       ELSE tagFlag = <<>> /\ nPlans \in 0..MaxPlans
  /\ builders = <<>>
  /\ tagged = "none"
  /\ dPc = "start"
  /\ runners = <<>>
  /\ runnerCloses = NoFuncs
  /\ funcs = <<>>
  /\ cancelCalls = NoFuncs
  /\ handlerExit = TRUE
  /\ exit = "running"
  /\ nTriggers = 0

Builder(st) == [st |-> st, closes |-> 0]

\* app.Action up to "defer b.Close()": the variables are parsed, mkBuilder
\* constructs the builder and registers its scope and its runner handle.
OneShotStart ==
  /\ Running /\ driver = "oneshot" /\ dPc = "start"
  /\ LET n == NewScope(cancelCalls)
     IN  IF parseVars(varFlags).panic THEN
           /\ MainExit("exit2")
           /\ UNCHANGED << builders, funcs, runners, runnerCloses, cancelCalls >>
         ELSE
           /\ cancelCalls' = (n :> 0) @@ cancelCalls
           /\ \/ \* builder.NewBuilder fails
                 /\ builders' = << Builder("constructFailed") >>
                 /\ MainExit("exit1")
                 /\ UNCHANGED << funcs, runners, runnerCloses >>
              \/ /\ builders' = << Builder("constructed") >>
                 /\ funcs' = AddFunc(funcs, n)
                 /\ runners' = AddRunner(runners, 1)
                 /\ runnerCloses' = (1 :> 0) @@ runnerCloses
                 /\ dPc' = "run"
                 /\ UNCHANGED exit
  /\ UNCHANGED << driver, varFlags, tagFlag, nPlans, tagged, handlerExit,
                  nTriggers >>
  /\ UNCHANGED << replOwnVars, funcsVars >>

\* b.Run() is entered.
OneShotRun ==
  /\ Running /\ driver = "oneshot" /\ dPc = "run"
  /\ builders' = [builders EXCEPT ![1].st = "running"]
  /\ dPc' = "running"
  /\ UNCHANGED << driver, varFlags, tagFlag, nPlans, tagged, runners,
                  runnerCloses, funcs, cancelCalls, handlerExit, exit,
                  nTriggers >>
  /\ UNCHANGED << replOwnVars, funcsVars >>

\* b.Run() returns its result.
OneShotRunEnd ==
  /\ Running /\ driver = "oneshot" /\ dPc = "running"
  /\ \/ /\ builders' = [builders EXCEPT ![1].st = "failed"]
        /\ MainExit("exit1")
     \/ /\ builders' = [builders EXCEPT ![1].st = "ok"]
        /\ dPc' = IF tagFlag # <<>> THEN "tag" ELSE "finish"
        /\ UNCHANGED exit
  /\ UNCHANGED << driver, varFlags, tagFlag, nPlans, tagged, runners,
                  runnerCloses, funcs, cancelCalls, handlerExit, nTriggers >>
  /\ UNCHANGED << replOwnVars, funcsVars >>

\* b.Tag(tag)
OneShotTag ==
  /\ Running /\ driver = "oneshot" /\ dPc = "tag"
  /\ \/ tagged' = "failed" /\ MainExit("exit1")
     \/ tagged' = "ok" /\ dPc' = "finish" /\ UNCHANGED exit
  /\ UNCHANGED << driver, varFlags, tagFlag, nPlans, builders, runners,
                  runnerCloses, funcs, cancelCalls, handlerExit, nTriggers >>
  /\ UNCHANGED << replOwnVars, funcsVars >>

\* log.Finish, the action returns, the deferred b.Close() runs, main ends.
OneShotFinish ==
  /\ Running /\ driver = "oneshot" /\ dPc = "finish"
  /\ builders' = [builders EXCEPT ![1].closes = @ + 1]
  /\ MainExit("exit0")
  /\ UNCHANGED << driver, varFlags, tagFlag, nPlans, tagged, runners,
                  runnerCloses, funcs, cancelCalls, handlerExit, nTriggers >>
  /\ UNCHANGED << replOwnVars, funcsVars >>


\* One round of the loop of runMulti over the plan files: the scope and the
\* runner handle are registered, then the builder is constructed.
MultiConstruct ==
  /\ Running /\ driver = "multi" /\ dPc = "start" /\ Len(builders) < nPlans
  /\ LET n == NewScope(cancelCalls)
         i == Len(builders) + 1
     IN  IF parseVars(varFlags).panic THEN
           /\ MainExit("exit2")
           /\ UNCHANGED << builders, funcs, runners, runnerCloses, cancelCalls >>
         ELSE
           /\ cancelCalls' = (n :> 0) @@ cancelCalls
           /\ funcs' = AddFunc(funcs, n)
           /\ runners' = AddRunner(runners, i)
           /\ runnerCloses' = (i :> 0) @@ runnerCloses
           /\ \/ \* builder.NewBuilder fails
                 /\ builders' = Append(builders, Builder("constructFailed"))
                 /\ MainExit("exit1")
              \/ /\ builders' = Append(builders, Builder("constructed"))
                 /\ UNCHANGED << dPc, exit >>
  /\ UNCHANGED << driver, varFlags, tagFlag, nPlans, tagged, handlerExit,
                  nTriggers >>
  /\ UNCHANGED << replOwnVars, funcsVars >>

\* multi.NewBuilder(builders) and mb.Build(): the Run of every plan is
\* started, one task for each.
MultiBuild ==
  /\ Running /\ driver = "multi" /\ dPc = "start" /\ Len(builders) = nPlans
  /\ builders' = [i \in 1..Len(builders) |->
                    [builders[i] EXCEPT !.st = "running"]]
  /\ dPc' = "wait"
  /\ UNCHANGED << driver, varFlags, tagFlag, nPlans, tagged, runners,
                  runnerCloses, funcs, cancelCalls, handlerExit, exit,
                  nTriggers >>
  /\ UNCHANGED << replOwnVars, funcsVars >>

\* The task of one plan reaches its end, in success or in failure.
BuildEnd ==
  /\ Running /\ driver = "multi" /\ dPc = "wait"
  /\ \E i \in 1..Len(builders), st \in { "ok", "failed" } :
       /\ builders[i].st = "running"
       /\ builders' = [builders EXCEPT ![i].st = st]
  /\ UNCHANGED << driver, varFlags, tagFlag, nPlans, tagged, dPc, runners,
                  runnerCloses, funcs, cancelCalls, handlerExit, exit,
                  nTriggers >>
  /\ UNCHANGED << replOwnVars, funcsVars >>

\* mb.Wait() returns once every task is over: an error when a plan failed.
MultiWait ==
  /\ Running /\ driver = "multi" /\ dPc = "wait"
  /\ \A i \in 1..Len(builders) : builders[i].st \in { "ok", "failed" }
  /\ IF \E i \in 1..Len(builders) : builders[i].st = "failed"
       THEN MainExit("exit2")
       ELSE MainExit("exit0")
  /\ UNCHANGED << driver, varFlags, tagFlag, nPlans, builders, tagged,
                  runners, runnerCloses, funcs, cancelCalls, handlerExit,
                  nTriggers >>
  /\ UNCHANGED << replOwnVars, funcsVars >>

\* signal.Handler on a termination request while a driver runs: every cancel
\* function is called, every runner handle is released, both lists are
\* cleared, and in terminate mode the process ends.
MainTrigger ==
  /\ Running /\ nTriggers < MaxTriggers
  /\ nTriggers' = nTriggers + 1
  /\ cancelCalls' = CallAll(cancelCalls, funcs)
  /\ runnerCloses' = CallAll(runnerCloses, runners)
  /\ funcs' = <<>>
  /\ runners' = <<>>
  /\ IF handlerExit THEN MainExit("killed") ELSE UNCHANGED << exit, dPc >>
  /\ UNCHANGED << driver, varFlags, tagFlag, nPlans, builders, tagged,
                  handlerExit >>
  /\ UNCHANGED << replOwnVars, funcsVars >>

MainNext ==
  \/ OneShotStart \/ OneShotRun \/ OneShotRunEnd \/ OneShotTag \/ OneShotFinish
  \/ MultiConstruct \/ MultiBuild \/ BuildEnd \/ MultiWait
  \/ MainTrigger

\* ------------------------------------------------------------------ specifications
vars == << replVars, funcsVars, mainVars >>

\* The parts of the program a specification does not look at stay as they are.
FuncsIdle ==
  /\ imageID = <<>>
  /\ files = (PasswdPath :> <<>>) @@ (GroupPath :> <<>>)
  /\ fResult = NoResult

MainIdle ==
  /\ driver = "repl" /\ varFlags = <<>> /\ tagFlag = <<>> /\ nPlans = 0
  /\ builders = <<>> /\ tagged = "none" /\ dPc = "repl"
  /\ runners = <<>> /\ runnerCloses = NoFuncs

ReplIdle == ReplOwnInit /\ tty

\* The interactive session.
Init == ReplInit /\ FuncsIdle /\ MainIdle
Spec == Init /\ [][ReplNext]_vars

\* The builder functions.
InitFuncs == ReplInit /\ tty /\ MainIdle /\ FuncsInit
SpecFuncs == InitFuncs /\ [][FuncsNext]_vars

\* The one-shot and the multi driver.
InitMain == ReplIdle /\ FuncsIdle /\ MainInit
SpecMain == InitMain /\ [][MainNext]_vars


\* ------------------------------------------------------------------ claims
\* The iteration under way has called RunCode and RunCode has returned.
Evaluated == lastCall.made /\ mPc # "eval"

\* Lines and read errors that are published and not yet dealt with by an
\* iteration that is over.
Outstanding == Len(lineChan) + Len(errChan) + consumed

\* C1: the background reader never runs ahead of the main loop: while it reads
\* (or holds what it has just read) nothing it published before is still in a
\* channel or in an unfinished iteration, and an iteration receives at most
\* one published item.
C1_NoRunAhead ==
  /\ pPc \in { "read", "publish" } => Outstanding = 0
  /\ consumed <= 1

\* C2: an incomplete fragment is kept: no error is printed, the text stays
\* buffered, the prompt is the continuation prompt and the session's token is
\* the one returned; the next line is appended and the whole resubmitted; when
\* that completes the statement the result is printed, the buffer is empty and
\* the token is the baseline.
C2_ContinuationProtocol ==
  /\ (Evaluated /\ lastOutcome.kind = "incomplete") =>
       /\ "error" \notin printed
       /\ line = lastCall.text
       /\ prompt = multilinePrompt
       /\ stackKeep = lastOutcome.keep
  /\ (lastCall.made /\ prevIter.kind = "incomplete") =>
       lastCall.text = prevIter.text \o lastCall.input \o << "\n" >>
  /\ (Evaluated /\ prevIter.kind = "incomplete" /\ lastOutcome.kind = "ok") =>
       /\ "result" \in printed
       /\ line = <<>>
       /\ stackKeep = Baseline

\* C3: every iteration runs under a scope of its own, the scopes of the
\* iterations before it are cancelled, and every RunCode call starts under a
\* scope that is not cancelled.
C3_FreshScope ==
  /\ mPc \in { "select", "eval", "sync" } =>
       \A sc \in DOMAIN cancelCalls :
         (sc # curScope /\ sc # 0) => Cancelled(sc)
  /\ lastCall.made => ~lastCall.cancelled

\* C4: the only scope the coordinator holds that is not cancelled is the one
\* of the current iteration (before the first iteration: the one NewRepl
\* registered), and a trigger does not end the process.
C4_OnlyCurrentScope ==
  /\ \A i \in 1..Len(funcs) : ~Cancelled(funcs[i]) => funcs[i] = curScope
  /\ exit # "killed"

C6_ResetFresh ==
  (lastCall.made /\ lastCall.eval > 1 /\ lastCall.nth = 1) =>
    /\ lastCall.text = lastCall.input \o << "\n" >>
    /\ lastCall.keep = Baseline
    /\ evals[lastCall.eval].vars = rvars

\* C7: a line whose trimmed text is help, reset, quit or exit is never part of
\* a RunCode call.
C7_SpecialNeverEvaluated ==
  lastCall.made => TrimSpace(lastCall.input) \notin SpecialWords

\* C8: read, getuid and getgid, called with one argument on a builder without
\* an image, return an error, make no engine call and leave the image alone.
C8_PrerequisiteGuard ==
  (/\ fResult.fn \in { "read", "getuid", "getgid" }
   /\ Len(fResult.args) = 1
   /\ fResult.before = <<>>) =>
    /\ fResult.ret.kind = "err"
    /\ fResult.ret.engine = 0
    /\ fResult.after = fResult.before

\* C8, its case: getuid was called with one argument before any image.
C8_Witness ==
  /\ fResult.fn = "getuid" /\ Len(fResult.args) = 1 /\ fResult.before = <<>>
  /\ fResult.ret.kind = "err"

\* The file a lookup function reads.
LookupFile(fn) == IF fn = "getuid" THEN PasswdPath ELSE GroupPath

\* The lines of content whose first field is name.
Matches(content, name) ==
  LET es == Split(content, "\n")
  IN  { i \in 1..Len(es) : Split(es[i], ":")[1] = name }

\* C9: getuid and getgid, when the engine delivers the file, return the third
\* field of the first line whose first field is the name, and when there is
\* no such line an error whose message contains the name.
C9_LookupParsing ==
  (/\ fResult.fn \in { "getuid", "getgid" }
   /\ Len(fResult.args) = 1
   /\ fResult.before # <<>>
   /\ fResult.ret.engine = 1
   /\ fResult.ret.msg # << "engine error" >>) =>
    LET content == files[LookupFile(fResult.fn)]
        name == fResult.args[1]
        es == Split(content, "\n")
        ms == Matches(content, name)
    IN  IF ms # {}
          THEN LET first == CHOOSE i \in ms : \A j \in ms : i <= j
                   parts == Split(es[first], ":")
               IN  /\ fResult.ret.kind = "ok"
                   /\ Len(parts) >= 3
                   /\ fResult.ret.val = parts[3]
          ELSE /\ fResult.ret.kind = "err"
               /\ Contains(fResult.ret.msg, name)

\* C10: a driver that ends after a build, a construction or a tag failed ends
\* with exit code 1, never 2; one that ends after every build and the tag it
\* was asked for succeeded ends with exit code 0.
C10_ExitCodes ==
  LET failure ==
        \/ \E i \in 1..Len(builders) :
             builders[i].st \in { "failed", "constructFailed" }
        \/ tagged = "failed"
      success ==
        /\ Len(builders) = nPlans
        /\ \A i \in 1..Len(builders) : builders[i].st = "ok"
        /\ tagFlag # <<>> => tagged = "ok"
  IN  (dPc = "exited" /\ exit # "killed") =>
        /\ failure => exit = "exit1"
        /\ success => exit = "exit0"

Started ==
  \E i \in 1..Len(builders) : builders[i].st \in { "running", "ok", "failed" }

\* C12: a configuration error found at startup, a --var value without "=" or
\* a plan whose builder cannot be constructed, ends the driver with the exit
\* code of a recoverable error before the Run of any plan is started; the
\* multi driver starts no plan unless the builder of every plan was
\* constructed.
C12_ConfigErrorFatal ==
  LET badVar == parseVars(varFlags).panic
      badPlan ==
        \E i \in 1..Len(builders) : builders[i].st = "constructFailed"
  IN  /\ (badVar \/ badPlan) => ~Started
      /\ (dPc = "exited" /\ exit # "killed" /\ (badVar \/ badPlan)) =>
           exit = "exit1"
      /\ (driver = "multi" /\ Started) =>
           /\ Len(builders) = nPlans
           /\ \A i \in 1..Len(builders) : builders[i].st # "constructFailed"

\* C13: no cancel function and no runner handle is ever called or released
\* more than once, the session's own cancelling of a replaced scope included,
\* and a trigger calls every registered cancel function and releases every
\* registered runner handle, each then having been called or released exactly
\* once, and leaves both registries empty.
C13_CancelOnce ==
  [][ /\ \A s \in DOMAIN cancelCalls' : cancelCalls'[s] <= 1
      /\ \A r \in DOMAIN runnerCloses' : runnerCloses'[r] <= 1
      /\ nTriggers' > nTriggers =>
           /\ funcs' = <<>> /\ runners' = <<>>
           /\ \A i \in 1..Len(funcs) : cancelCalls'[funcs[i]] = 1
           /\ \A i \in 1..Len(runners) : runnerCloses'[runners[i]] = 1
    ]_vars

\* The reader is blocked publishing: the channel its item goes to is full.
ProducerBlocked ==
  /\ pPc = "publish"
  /\ IF pItem.kind = "err" THEN Len(errChan) = ChanCap
                           ELSE Len(lineChan) = ChanCap

\* C14: the main loop is never blocked sending on syncChan while the reader
\* is blocked publishing on a full lineChan or errChan.
C14_NoHandoffDeadlock == ~(Running /\ mPc = "sync" /\ ProducerBlocked)

\* C15: whenever the main loop is about to release the reader, the prompt is
\* the continuation prompt exactly when a partial statement is buffered; after
\* a statement was cancelled, by an interrupt of the read or by a signal, the
\* buffer is empty and the prompt is the normal one.
C15_PromptMatchesBuffer ==
  (Running /\ mPc = "sync") =>
    /\ (prompt = multilinePrompt) <=> (line # <<>>)
    /\ path \in { "interrupt", "signal" } =>
         (line = <<>> /\ prompt = normalPrompt)

\* C16: getuid and getgid, called with a name on a builder with an image,
\* return a field value or an error value whatever the content of the file
\* and the name are; they never fault.
C16_LookupTotal ==
  (/\ fResult.fn \in { "getuid", "getgid" }
   /\ Len(fResult.args) = 1
   /\ fResult.before # <<>>) =>
    fResult.ret.kind \in { "ok", "err" }

\* What fn returns for one argument on a builder without an image.
PrerequisiteError(fn) ==
  IF fn = "read" THEN read(<< PasswdPath >>, <<>>, files, TRUE)
  ELSE IF fn = "getuid" THEN getuid(<< << "a" >> >>, <<>>, files, TRUE)
  ELSE getgid(<< << "a" >> >>, <<>>, files, TRUE)

\* C17: the error read, getuid or getgid returns on a builder without an
\* image tells which of the three was called: it differs from the error each
\* of the other two returns there.
C17_PrerequisiteNamesCapability ==
  (/\ fResult.fn \in { "read", "getuid", "getgid" }
   /\ Len(fResult.args) = 1
   /\ fResult.before = <<>>) =>
    /\ fResult.ret.kind = "err"
    /\ \A g \in { "read", "getuid", "getgid" } \ { fResult.fn } :
         PrerequisiteError(g).msg # fResult.ret.msg

\* C18: when the one-shot driver ends after its builder was constructed,
\* because the build succeeded, the build failed or the tag failed, Close has
\* been called on the builder exactly once.
C18_CloseOnce ==
  (/\ driver = "oneshot" /\ dPc = "exited" /\ exit # "killed"
   /\ builders # <<>>
   /\ builders[1].st \in { "ok", "failed" }) =>
    builders[1].closes = 1

\* C19: every evaluator of the session but the current one has been closed.
C19_DiscardedClosed ==
  \A i \in 1..Len(evals) : i # evaluator => evals[i].closed

====
